---- MODULE Spec2Model ----
(***************************************************************************)
(* tripoll: SNMP interface resolution (get_interface_ids) followed by one  *)
(* polling thread per host (worker) and the supervisor's heartbeat loop    *)
(* (main).  Modelled from src/tripoll.py.                                  *)
(*                                                                         *)
(* Strings are sequences of one-character strings.  An OID is the sequence *)
(* of its dotted components.  A walked row carries the OID and the         *)
(* prettyPrint() text of its value.                                        *)
(***************************************************************************)
EXTENDS Integers, Sequences, FiniteSets, TLC

(* ------------------------------ bounds --------------------------------- *)
\* longest walked table
MaxRows == 2
\* largest ifIndex a walked row can carry
MaxIndex == 2
\* most patterns configured for one host
MaxPatterns == 2

(* ------------------------------ inputs --------------------------------- *)
\* config['hosts'] in its (fixed) iteration order
HostOrder == <<"sw1", "sw2">>
Hosts == {HostOrder[k] : k \in 1..Len(HostOrder)}

\* the loop of worker over the two metric names
Metrics == <<"ifHCInOctets", "ifHCOutOctets">>

\* the ifDescr column walked by get_interface_ids
IfDescr == <<1, 3, 6, 1, 2, 1, 2, 2, 1, 2>>

\* configured interface names; "." is the regular-expression wildcard
PatternSet == { <<"5">>, <<"0", ".", "5">> }
\* ifDescr texts a device can return
DescrSet == { <<"0", "/", "5">>, <<"0", ".", "5">>, <<"1", "5">>, <<"0", "/", "7">> }

Indices == 1..MaxIndex
\* counter values a GET can return: the placeholder's 0 and another one
Values == {0, 1}

SeqsUpTo(S, n) == UNION { [1..k -> S] : k \in 0..n }

\* config['hosts'][host]['interfaces'] as loaded: an ordered list of patterns
PatternLists == SeqsUpTo(PatternSet, MaxPatterns)

\* ifIndex columns of a walk: rows come back in increasing OID order
IndexSeqs(n) == { s \in [1..n -> Indices] : \A a \in 1..(n - 1) : s[a] < s[a + 1] }

\* the tables a walk can return, one varbind (OID, ifDescr text) per row
WalkTables ==
  UNION { { [k \in 1..n |-> [name |-> IfDescr \o <<s[k]>>, val |-> d[k]]] :
              s \in IndexSeqs(n), d \in [1..n -> DescrSet] } : n \in 0..MaxRows }

\* what cmd_gen.nextCmd can hand back: a transport error (err_indication), a
\* protocol error (err_status, with the index of the offending varbind or 0),
\* or neither; the rows walked so far come back in every case
WalkResults ==
  [err_indication : {TRUE}, err_status : {FALSE}, err_index : {0},
   varbindtable : WalkTables]
  \cup
  [err_indication : {FALSE}, err_status : {TRUE}, err_index : 0..1,
   varbindtable : WalkTables]
  \cup
  [err_indication : {FALSE}, err_status : {FALSE}, err_index : {0},
   varbindtable : WalkTables]

\* what getCmd can hand back for one GET: a transport error, a protocol
\* error, or a counter value
Responses ==
  { r \in [err_indication : BOOLEAN, err_status : BOOLEAN, value : Values] :
      /\ r.err_indication => ~r.err_status
      /\ (r.err_indication \/ r.err_status) => r.value = 0 }

None == <<>>
NoReply == [err_indication |-> FALSE, err_status |-> FALSE, value |-> -1]
NoWalk == [err_indication |-> FALSE, err_status |-> FALSE, err_index |-> 0,
           varbindtable |-> <<>>]

(* --------------------------- pure functions ---------------------------- *)
\* mutant: every pattern character taken as a wildcard
CharMatchAny(p, c) == TRUE

\* one regular-expression atom against one character
CharMatch(p, c) == p = "." \/ p = c

\* re.search(re.compile("%s$" % interface), text)
ReSearch(interface, text) ==
  /\ Len(interface) <= Len(text)
  /\ \A k \in 1..Len(interface) :
        CharMatch(interface[k], text[Len(text) - Len(interface) + k])

\* mutant: the first dotted component instead of the last
get_interface_id_first(oid) == oid[1]

get_interface_id_from_mib(oid) == oid[Len(oid)]

\* mutant: the loop over the patterns without its break, the last match kept
LastMatch(patterns, text) ==
  LET hits == { k \in 1..Len(patterns) : ReSearch(patterns[k], text) }
  IN  IF hits = {} THEN 0 ELSE CHOOSE k \in hits : \A j \in hits : k >= j

\* index of the first pattern matching the text, 0 when none does
FirstMatch(patterns, text) ==
  LET hits == { k \in 1..Len(patterns) : ReSearch(patterns[k], text) }
  IN  IF hits = {} THEN 0 ELSE CHOOSE k \in hits : \A j \in hits : k <= j

\* the inner loop of get_interface_ids over one row: zero or one entry
MatchRow(patterns, row) ==
  LET k == FirstMatch(patterns, row.val)
  IN  IF k = 0 THEN <<>>
      ELSE << <<patterns[k], get_interface_id_from_mib(row.name)>> >>

\* mutant: a row whose pattern already has an entry is dropped
RECURSIVE MatchRowsDedup(_, _)
MatchRowsDedup(patterns, table) ==
  IF table = <<>> THEN <<>>
  ELSE LET rest == MatchRowsDedup(patterns, Tail(table))
           e == MatchRow(patterns, Head(table))
       IN  IF e # <<>> /\ \E n \in 1..Len(rest) : rest[n][1] = e[1][1]
           THEN rest
           ELSE e \o rest

\* mutant: the loop over the patterns outside the loop over the rows, every
\* row still under its first matching pattern
MatchRowsByPattern(patterns, table) ==
  LET RECURSIVE RowsOf(_, _)
      RowsOf(k, t) ==
        IF t = <<>> THEN <<>>
        ELSE (IF FirstMatch(patterns, Head(t).val) = k
              THEN MatchRow(patterns, Head(t)) ELSE <<>>) \o RowsOf(k, Tail(t))
      RECURSIVE From(_)
      From(k) == IF k > Len(patterns) THEN <<>> ELSE RowsOf(k, table) \o From(k + 1)
  IN  From(1)

\* the loop of lines 108-117 over the walked rows, in table order
RECURSIVE MatchRows(_, _)
MatchRows(patterns, table) ==
  IF table = <<>> THEN <<>>
  ELSE MatchRow(patterns, Head(table)) \o MatchRows(patterns, Tail(table))

\* mutant: a host without patterns takes every walked row
ResolveHostTakesAllWithoutPatterns(patterns, w) ==
  IF w.err_indication THEN <<>>
  ELSE IF w.err_status THEN <<>>
  ELSE IF patterns = <<>>
  THEN [n \in 1..Len(w.varbindtable) |->
          <<w.varbindtable[n].val, get_interface_id_from_mib(w.varbindtable[n].name)>>]
  ELSE MatchRows(patterns, w.varbindtable)

\* mutant: a transport error does not stop the matching
ResolveHostMatchesOnTransport(patterns, w) ==
  IF w.err_status THEN <<>> ELSE MatchRows(patterns, w.varbindtable)

\* mutant: a protocol error keeps the rows walked so far
ResolveHostKeepsPartial(patterns, w) ==
  IF w.err_indication THEN <<>> ELSE MatchRows(patterns, w.varbindtable)

\* the interfaces list built for one host from the walk's result
ResolveHost(patterns, w) ==
  IF w.err_indication THEN <<>>
  ELSE IF w.err_status THEN <<>>
  ELSE MatchRows(patterns, w.varbindtable)

\* the diagnostic of the err_status branch indexes varbindtable[-1]
WalkRaises(w) ==
  /\ ~w.err_indication
  /\ w.err_status
  /\ w.err_index # 0
  /\ w.varbindtable = <<>>

\* mutant: a transport error reported as a success with the placeholder 0
pollPlaceholder(resp) ==
  IF resp.err_indication THEN <<"success", 0>>
  ELSE IF resp.err_status THEN None
  ELSE <<"success", resp.value>>

\* poll(): <<status, value>>, or None on a protocol error
poll(resp) ==
  IF resp.err_indication THEN <<"err_indication", 0>>
  ELSE IF resp.err_status THEN None
  ELSE <<"success", resp.value>>

\* get_current_time(): the formatted instant, kept as one opaque text
get_current_time == "YYYY-MM-DDTHH:MM:SSZ"

build_json(measurement, hostname, interface, timestamp, value) ==
  << [measurement |-> measurement,
      tags |-> [host |-> hostname, interface |-> interface],
      time |-> timestamp,
      fields |-> [value |-> value]] >>

(* ------------------------------- state --------------------------------- *)
VARIABLES
  cfg,          \* cfg['hosts'][h]['interfaces']: patterns, then resolved pairs
  mainPc,       \* where the main thread is
  hostIdx,      \* position of main's current loop in HostOrder
  walk,         \* err_indication, err_status, err_index, varbindtable of the last walk
  interfaces,   \* get_interface_ids: the local list built for the current host
  resolution,   \* how the resolution of each host ended
  pc,           \* where each worker thread is
  ifIdx,        \* worker: position in the interfaces loop
  whatIdx,      \* worker: position in the metrics loop
  status,       \* worker: status returned by the last poll
  value,        \* worker: value returned by the last poll
  json_data,    \* worker: batch handed to write_points in this iteration
  exc,          \* worker: the exception that ended the thread
  request,      \* worker: the GET issued in this iteration
  reply,        \* worker: what getCmd returned in this iteration
  gets          \* worker: GETs issued in the current round

vars == <<cfg, mainPc, hostIdx, walk, interfaces, resolution, pc, ifIdx, whatIdx,
          status, value, json_data, exc, request, reply, gets>>

mainVars == <<mainPc, hostIdx, walk, interfaces, resolution>>
workerVars == <<pc, ifIdx, whatIdx, status, value, json_data, exc, request,
                reply, gets>>

Init ==
  /\ cfg \in [Hosts -> PatternLists]
  /\ mainPc = "walk"
  /\ hostIdx = 1
  /\ walk = NoWalk
  /\ interfaces = <<>>
  /\ resolution = [h \in Hosts |-> "pending"]
  /\ pc = [h \in Hosts |-> "unstarted"]
  /\ ifIdx = [h \in Hosts |-> 1]
  /\ whatIdx = [h \in Hosts |-> 1]
  /\ status = [h \in Hosts |-> "unset"]
  /\ value = [h \in Hosts |-> 0]
  /\ json_data = [h \in Hosts |-> <<>>]
  /\ exc = [h \in Hosts |-> "none"]
  /\ request = [h \in Hosts |-> <<>>]
  /\ reply = [h \in Hosts |-> NoReply]
  /\ gets = [h \in Hosts |-> 0]

(* ------------------------- main: resolution ---------------------------- *)
\* get_interface_ids, lines 90-98: next host, empty local list, the walk
Walk ==
  /\ mainPc = "walk"
  /\ interfaces' = <<>>
  /\ \E w \in WalkResults : walk' = w
  /\ mainPc' = "match"
  /\ UNCHANGED <<cfg, hostIdx, resolution>>
  /\ UNCHANGED workerVars

\* how a walk's result is classified by lines 100-107
WalkOutcome(w) ==
  IF w.err_indication THEN "transport"
  ELSE IF w.err_status THEN "protocol"
  ELSE "ok"

\* get_interface_ids, lines 100-117: the error branches and the matching
Match ==
  /\ mainPc = "match"
  /\ IF WalkRaises(walk)
     THEN \* IndexError out of get_interface_ids and main: the process ends
          /\ mainPc' = "aborted"
          /\ resolution' = [resolution EXCEPT ![HostOrder[hostIdx]] = "raised"]
          /\ UNCHANGED interfaces
     ELSE /\ interfaces' = ResolveHost(cfg[HostOrder[hostIdx]], walk)
          /\ resolution' = [resolution EXCEPT ![HostOrder[hostIdx]] = WalkOutcome(walk)]
          /\ mainPc' = "assign"
  /\ UNCHANGED <<cfg, hostIdx, walk>>
  /\ UNCHANGED workerVars

\* mutant: the pollers started as soon as the first host is resolved
AssignThenSpawn ==
  /\ mainPc = "assign"
  /\ cfg' = [cfg EXCEPT ![HostOrder[hostIdx]] = interfaces]
  /\ hostIdx' = 1
  /\ mainPc' = "spawn"
  /\ UNCHANGED <<walk, interfaces, resolution>>
  /\ UNCHANGED workerVars

\* mutant: the list stored under every host of the configuration
AssignToEveryHost ==
  /\ mainPc = "assign"
  /\ cfg' = [h \in Hosts |-> interfaces]
  /\ IF hostIdx < Len(HostOrder)
     THEN hostIdx' = hostIdx + 1 /\ mainPc' = "walk"
     ELSE hostIdx' = 1 /\ mainPc' = "spawn"
  /\ UNCHANGED <<walk, interfaces, resolution>>
  /\ UNCHANGED workerVars

\* get_interface_ids, line 119: store the list; then the next host, or on
\* to main's loop over the hosts
Assign ==
  /\ mainPc = "assign"
  /\ cfg' = [cfg EXCEPT ![HostOrder[hostIdx]] = interfaces]
  /\ IF hostIdx < Len(HostOrder)
     THEN hostIdx' = hostIdx + 1 /\ mainPc' = "walk"
     ELSE hostIdx' = 1 /\ mainPc' = "spawn"
  /\ UNCHANGED <<walk, interfaces, resolution>>
  /\ UNCHANGED workerVars

(* ------------------------------ worker --------------------------------- *)
\* top of "while True": a new round starts, enter the for loops
RoundStart(h) ==
  /\ ifIdx' = [ifIdx EXCEPT ![h] = 1]
  /\ whatIdx' = [whatIdx EXCEPT ![h] = 1]
  /\ gets' = [gets EXCEPT ![h] = 0]
  /\ pc' = [pc EXCEPT ![h] = IF cfg[h] = <<>> THEN "sleep" ELSE "poll"]

\* mutant: the loop over the metrics left after its first metric
AdvanceSkipsMetric(h) ==
  IF ifIdx[h] < Len(cfg[h])
  THEN /\ ifIdx' = [ifIdx EXCEPT ![h] = ifIdx[h] + 1]
       /\ whatIdx' = [whatIdx EXCEPT ![h] = 1]
       /\ pc' = [pc EXCEPT ![h] = "poll"]
  ELSE /\ pc' = [pc EXCEPT ![h] = "sleep"]
       /\ UNCHANGED <<ifIdx, whatIdx>>

\* mutant: the sleep inside the loop over the interfaces
AdvanceSleepsEarly(h) ==
  IF whatIdx[h] < Len(Metrics)
  THEN /\ whatIdx' = [whatIdx EXCEPT ![h] = whatIdx[h] + 1]
       /\ pc' = [pc EXCEPT ![h] = "poll"]
       /\ UNCHANGED ifIdx
  ELSE /\ pc' = [pc EXCEPT ![h] = "sleep"]
       /\ UNCHANGED <<ifIdx, whatIdx>>

\* mutant: the two for loops nested the other way round
AdvanceInterfaceFirst(h) ==
  IF ifIdx[h] < Len(cfg[h])
  THEN /\ ifIdx' = [ifIdx EXCEPT ![h] = ifIdx[h] + 1]
       /\ pc' = [pc EXCEPT ![h] = "poll"]
       /\ UNCHANGED whatIdx
  ELSE IF whatIdx[h] < Len(Metrics)
  THEN /\ whatIdx' = [whatIdx EXCEPT ![h] = whatIdx[h] + 1]
       /\ ifIdx' = [ifIdx EXCEPT ![h] = 1]
       /\ pc' = [pc EXCEPT ![h] = "poll"]
  ELSE /\ pc' = [pc EXCEPT ![h] = "sleep"]
       /\ UNCHANGED <<ifIdx, whatIdx>>

\* next iteration of the nested for loops, or the sleep after the last one
Advance(h) ==
  IF whatIdx[h] < Len(Metrics)
  THEN /\ whatIdx' = [whatIdx EXCEPT ![h] = whatIdx[h] + 1]
       /\ pc' = [pc EXCEPT ![h] = "poll"]
       /\ UNCHANGED ifIdx
  ELSE IF ifIdx[h] < Len(cfg[h])
  THEN /\ ifIdx' = [ifIdx EXCEPT ![h] = ifIdx[h] + 1]
       /\ whatIdx' = [whatIdx EXCEPT ![h] = 1]
       /\ pc' = [pc EXCEPT ![h] = "poll"]
  ELSE /\ pc' = [pc EXCEPT ![h] = "sleep"]
       /\ UNCHANGED <<ifIdx, whatIdx>>

\* main, lines 165-175: get_interface_ids has returned (its locals are gone);
\* start the thread of the current host, whose set-up (lines 124-132) brings
\* it to the top of its loop
Spawn ==
  /\ mainPc = "spawn"
  /\ walk' = NoWalk
  /\ interfaces' = <<>>
  /\ RoundStart(HostOrder[hostIdx])
  /\ IF hostIdx < Len(HostOrder)
     THEN hostIdx' = hostIdx + 1 /\ mainPc' = "spawn"
     ELSE hostIdx' = hostIdx /\ mainPc' = "alive"
  /\ UNCHANGED <<cfg, resolution>>
  /\ UNCHANGED <<status, value, json_data, exc, request, reply>>

\* an exception nothing catches ends the thread; its locals go with it
Die(h, e) ==
  /\ pc' = [pc EXCEPT ![h] = "dead"]
  /\ exc' = [exc EXCEPT ![h] = e]
  /\ status' = [status EXCEPT ![h] = "unset"]
  /\ value' = [value EXCEPT ![h] = 0]

\* worker, line 142
IsSuccess(st) == st = "success"

\* worker, lines 137-142: one GET and the unpacking of what poll returned
WorkerPoll(h) ==
  /\ pc[h] = "poll"
  /\ \E resp \in Responses :
       LET interface == cfg[h][ifIdx[h]]
           what == Metrics[whatIdx[h]]
           r == poll(resp)
       IN  /\ request' = [request EXCEPT ![h] = <<what, interface[2]>>]
           /\ reply' = [reply EXCEPT ![h] = resp]
           /\ gets' = [gets EXCEPT ![h] = gets[h] + 1]
           /\ json_data' = [json_data EXCEPT ![h] = <<>>]
           /\ IF r = None
              THEN \* "status, value = None" raises TypeError: the thread ends
                   /\ Die(h, "TypeError")
                   /\ UNCHANGED <<ifIdx, whatIdx>>
              ELSE /\ status' = [status EXCEPT ![h] = r[1]]
                   /\ value' = [value EXCEPT ![h] = r[2]]
                   /\ IF IsSuccess(r[1])
                      THEN /\ pc' = [pc EXCEPT ![h] = "write"]
                           /\ UNCHANGED <<ifIdx, whatIdx, exc>>
                      ELSE Advance(h) /\ UNCHANGED exc
  /\ UNCHANGED cfg
  /\ UNCHANGED mainVars

\* worker, lines 143-150: build the point and hand it to the sink
WorkerWrite(h) ==
  /\ pc[h] = "write"
  /\ \E ok \in BOOLEAN :
       LET interface == cfg[h][ifIdx[h]]
           what == Metrics[whatIdx[h]]
           current_time == get_current_time
       IN  /\ json_data' = [json_data EXCEPT ![h] =
                              build_json(what, h, interface[1], current_time, value[h])]
           /\ IF ok
              THEN Advance(h) /\ UNCHANGED <<exc, status, value>>
              ELSE \* write_points raises: nothing catches it, the thread ends
                   /\ Die(h, "SinkError")
                   /\ UNCHANGED <<ifIdx, whatIdx>>
  /\ UNCHANGED <<cfg, request, reply, gets>>
  /\ UNCHANGED mainVars

\* worker, line 151 and back to line 134
WorkerSleep(h) ==
  /\ pc[h] = "sleep"
  /\ RoundStart(h)
  /\ UNCHANGED <<cfg, status, value, json_data, exc, request, reply>>
  /\ UNCHANGED mainVars

(* -------------------------- main: heartbeat ---------------------------- *)
\* main, line 178
Alive ==
  /\ mainPc = "alive"
  /\ mainPc' = "sleep"
  /\ UNCHANGED <<cfg, hostIdx, walk, interfaces, resolution>>
  /\ UNCHANGED workerVars

\* main, line 179
MainSleep ==
  /\ mainPc = "sleep"
  /\ mainPc' = "alive"
  /\ UNCHANGED <<cfg, hostIdx, walk, interfaces, resolution>>
  /\ UNCHANGED workerVars

Next ==
  \/ Walk
  \/ Match
  \/ Assign
  \/ Spawn
  \/ Alive
  \/ MainSleep
  \/ \E h \in Hosts : WorkerPoll(h)
  \/ \E h \in Hosts : WorkerWrite(h)
  \/ \E h \in Hosts : WorkerSleep(h)

Spec == Init /\ [][Next]_vars

\* the main thread and every started thread keep being scheduled
FairSpec ==
  /\ Spec
  /\ WF_vars(Walk \/ Match \/ Assign \/ Spawn \/ Alive \/ MainSleep)
  /\ \A h \in Hosts : WF_vars(WorkerPoll(h) \/ WorkerWrite(h) \/ WorkerSleep(h))

(* ===================== vocabulary of the properties ==================== *)
Range(s) == { s[n] : n \in 1..Len(s) }

\* the host main is resolving, and what is known about it before line 119
CurHost == HostOrder[hostIdx]
Patterns == cfg[CurHost]
Table == walk.varbindtable
WalkOk == ~walk.err_indication /\ ~walk.err_status

\* the final dotted component of an OID
FinalComponent(oid) == oid[Len(oid)]

\* the text ends, character for character, in p
EndsWith(text, p) ==
  /\ Len(p) <= Len(text)
  /\ \A k \in 1..Len(p) : p[k] = text[Len(text) - Len(p) + k]

\* pattern p, read as the regular expression "p$", matches the text
SuffixMatch(p, text) ==
  /\ Len(p) <= Len(text)
  /\ \A k \in 1..Len(p) :
       LET c == text[Len(text) - Len(p) + k] IN p[k] = c \/ p[k] = "."

\* some configured pattern matches the row
RowMatched(r) == \E k \in 1..Len(Patterns) : SuffixMatch(Patterns[k], Table[r].val)

\* k is the first configured pattern that matches row r
IsFirstMatch(k, r) ==
  /\ SuffixMatch(Patterns[k], Table[r].val)
  /\ \A j \in 1..(k - 1) : ~SuffixMatch(Patterns[j], Table[r].val)

\* cfg[h] holds the resolved list of h
Resolved(h) ==
  /\ resolution[h] \in {"ok", "transport", "protocol"}
  /\ ~(mainPc = "assign" /\ h = CurHost)

\* h's list has just been stored: the locals of its resolution are still there
JustStored(h) ==
  \/ /\ mainPc = "walk"
     /\ hostIdx > 1
     /\ h = HostOrder[hostIdx - 1]
  \/ /\ mainPc = "spawn"
     /\ hostIdx = 1
     /\ h = HostOrder[Len(HostOrder)]

StoredAsBuilt == \A h \in Hosts : JustStored(h) => cfg[h] = interfaces

Started(h) == pc[h] # "unstarted"

\* the (entry, metric) pair of the latest GET of the round, when gets[h] > 0
IterIf(h) == ((gets[h] - 1) \div Len(Metrics)) + 1
IterWhat(h) == ((gets[h] - 1) % Len(Metrics)) + 1

\* GETs of the round issued before the pair the loops now stand at
Before(h) == (ifIdx[h] - 1) * Len(Metrics) + (whatIdx[h] - 1)

ReplySuccess(h) == gets[h] > 0 /\ ~reply[h].err_indication /\ ~reply[h].err_status
ReplyTransport(h) == gets[h] > 0 /\ reply[h].err_indication
ReplyProtocol(h) == gets[h] > 0 /\ reply[h].err_status

\* the point the claim expects for the latest GET of the round
ExpectedPoint(h) ==
  [measurement |-> Metrics[IterWhat(h)],
   tags |-> [host |-> h, interface |-> cfg[h][IterIf(h)][1]],
   time |-> get_current_time,
   fields |-> [value |-> reply[h].value]]

(* ================================ C1 =================================== *)
\* C1: a GET answered with a protocol error (error-status set) does not end
\* the round: the poller is still running afterwards, so that the remaining
\* pairs of the round and the later rounds are polled.
C1_ProtocolErrorKeepsPolling ==
  \A h \in Hosts : ReplyProtocol(h) => pc[h] # "dead"

(* ================================ C2 =================================== *)
\* some failure has happened in the resolution or in the polling of host h
HostFailed(h) ==
  \/ resolution[h] \in {"transport", "protocol", "raised"}
  \/ ReplyTransport(h)
  \/ ReplyProtocol(h)
  \/ exc[h] # "none"

\* C2: once the resolution or the polling of some host has failed (a walk or
\* a GET with a transport or protocol error, a failed sink write), the
\* supervisor has not been stopped, and every started poller that is no
\* longer running was ended by a failure of its own.
C2_FailureStaysWithinHost ==
  (\E h \in Hosts : HostFailed(h)) =>
     /\ mainPc # "aborted"
     /\ \A g \in Hosts : pc[g] = "dead" => exc[g] # "none"

(* ================================ C3 =================================== *)
\* C3: a completed round has issued exactly K x M GETs, one per (entry,
\* metric) pair in loop order; a successful GET is followed, before the next
\* GET, by exactly one write_points call whose batch holds exactly one point
\* with that metric, host, logical name and returned value; a GET that did not
\* succeed leaves no write.
C3_RoundIssuesKxMAndWritesEachSuccess ==
  \A h \in Hosts : Started(h) =>
    /\ pc[h] = "sleep" => gets[h] = Len(cfg[h]) * Len(Metrics)
    /\ pc[h] = "poll" => gets[h] = Before(h)
    /\ pc[h] = "write" => gets[h] = Before(h) + 1
    /\ gets[h] > 0 =>
         /\ IterIf(h) <= Len(cfg[h])
         /\ request[h] = <<Metrics[IterWhat(h)], cfg[h][IterIf(h)][2]>>
    /\ pc[h] = "write" => ReplySuccess(h) /\ json_data[h] = <<>>
    /\ (ReplySuccess(h) /\ pc[h] # "write") => json_data[h] = <<ExpectedPoint(h)>>
    /\ (gets[h] > 0 /\ ~ReplySuccess(h)) => (json_data[h] = <<>> /\ pc[h] # "write")

C3_Witness ==
  \E h \in Hosts :
    /\ pc[h] = "sleep"
    /\ Len(cfg[h]) = 2
    /\ gets[h] = 4
    /\ ReplySuccess(h)
    /\ json_data[h] = <<ExpectedPoint(h)>>
    /\ reply[h].value = 1

(* ================================ C4 =================================== *)
\* C4 as claimed: after a walk without error, every configured pattern P that
\* some row's description ends in has an entry named P with that row's index.
C4_EveryEndingPatternNamed ==
  (mainPc = "assign" /\ WalkOk) =>
    \A k \in 1..Len(Patterns) : \A r \in 1..Len(Table) :
      EndsWith(Table[r].val, Patterns[k]) =>
        <<Patterns[k], FinalComponent(Table[r].name)>> \in Range(interfaces)

\* C4 as amended: after a walk without error, every row that a configured
\* pattern matches has an entry carrying the final component of the row's OID
\* and, as its name, the first configured pattern that matches the row; the
\* list stored for the host is the list so built.
C4_MatchedRowResolvedUnderFirstPattern ==
  /\ (mainPc = "assign" /\ WalkOk) =>
       \A k \in 1..Len(Patterns) : \A r \in 1..Len(Table) :
         SuffixMatch(Patterns[k], Table[r].val) =>
           \E j \in 1..k :
             /\ IsFirstMatch(j, r)
             /\ <<Patterns[j], FinalComponent(Table[r].name)>> \in Range(interfaces)
  /\ StoredAsBuilt

C4_Witness ==
  /\ mainPc = "assign"
  /\ WalkOk
  /\ \E k \in 1..Len(Patterns) : \E r \in 1..Len(Table) :
       /\ EndsWith(Table[r].val, Patterns[k])
       /\ FinalComponent(Table[r].name) = 2
       /\ <<Patterns[k], 2>> \notin Range(interfaces)
       /\ \E j \in 1..(k - 1) : <<Patterns[j], 2>> \in Range(interfaces)

(* ================================ C5 =================================== *)
\* C5 as claimed: every entry comes from a row whose description ends in the
\* entry's pattern, and a row whose description ends in no configured pattern
\* has no entry.
C5_EntriesEndInTheirPattern ==
  mainPc = "assign" =>
    /\ \A e \in Range(interfaces) :
         \E k \in 1..Len(Patterns) : \E r \in 1..Len(Table) :
           /\ e = <<Patterns[k], FinalComponent(Table[r].name)>>
           /\ EndsWith(Table[r].val, Patterns[k])
    /\ \A r \in 1..Len(Table) :
         (\A k \in 1..Len(Patterns) : ~EndsWith(Table[r].val, Patterns[k])) =>
           \A e \in Range(interfaces) : e[2] # FinalComponent(Table[r].name)

\* C5 as amended: every entry comes from a row that the entry's pattern, read
\* as the regular expression "P$", matches, and a row matched by no configured
\* pattern has no entry.
C5_EntriesMatchTheirPattern ==
  mainPc = "assign" =>
    /\ \A e \in Range(interfaces) :
         \E k \in 1..Len(Patterns) : \E r \in 1..Len(Table) :
           /\ e = <<Patterns[k], FinalComponent(Table[r].name)>>
           /\ SuffixMatch(Patterns[k], Table[r].val)
    /\ \A r \in 1..Len(Table) :
         ~RowMatched(r) =>
           \A e \in Range(interfaces) : e[2] # FinalComponent(Table[r].name)

C5_Witness ==
  /\ mainPc = "assign"
  /\ \E r \in 1..Len(Table) : \E e \in Range(interfaces) :
       /\ e[2] = FinalComponent(Table[r].name)
       /\ SuffixMatch(e[1], Table[r].val)
       /\ ~EndsWith(Table[r].val, e[1])
  /\ \E r \in 1..Len(Table) :
       /\ ~RowMatched(r)
       /\ Patterns # <<>>

(* ================================ C6 =================================== *)
\* C6: a walked row has at most one entry, and the entry of a row carries the
\* first, in configured order, of the patterns that match the row.
C6_FirstMatchWinsPerRow ==
  mainPc = "assign" =>
    \A r \in 1..Len(Table) :
      LET mine == { n \in 1..Len(interfaces) :
                      interfaces[n][2] = FinalComponent(Table[r].name) }
      IN  /\ Cardinality(mine) <= 1
          /\ \A n \in mine :
               \E k \in 1..Len(Patterns) :
                 IsFirstMatch(k, r) /\ interfaces[n][1] = Patterns[k]

C6_Witness ==
  /\ mainPc = "assign"
  /\ \E r \in 1..Len(Table) : \E j, k \in 1..Len(Patterns) :
       /\ j < k
       /\ Patterns[j] # Patterns[k]
       /\ SuffixMatch(Patterns[j], Table[r].val)
       /\ SuffixMatch(Patterns[k], Table[r].val)
       /\ <<Patterns[j], FinalComponent(Table[r].name)>> \in Range(interfaces)

(* ================================ C7 =================================== *)
\* C7 as claimed: two distinct rows whose descriptions end in the same
\* configured pattern both have entries, under one and the same logical name,
\* each with its own index.
C7_SamePatternSameName ==
  (mainPc = "assign" /\ WalkOk) =>
    \A k \in 1..Len(Patterns) : \A r1, r2 \in 1..Len(Table) :
      (r1 # r2 /\ EndsWith(Table[r1].val, Patterns[k])
               /\ EndsWith(Table[r2].val, Patterns[k])) =>
        \E name \in Range(Patterns) :
          /\ <<name, FinalComponent(Table[r1].name)>> \in Range(interfaces)
          /\ <<name, FinalComponent(Table[r2].name)>> \in Range(interfaces)

\* C7 as amended: two distinct rows matched by the same configured pattern
\* both have entries, in row order, each with its own index and with the first
\* configured pattern matching that row as its name; the list holds one entry
\* per matched row (nothing is deduplicated), and a poller polls every entry
\* of its list, at that entry's index, in every round.
C7_DuplicatesKeptAndPolled ==
  /\ (mainPc = "assign" /\ WalkOk) =>
       /\ \A k \in 1..Len(Patterns) : \A r1, r2 \in 1..Len(Table) :
            (r1 < r2 /\ SuffixMatch(Patterns[k], Table[r1].val)
                     /\ SuffixMatch(Patterns[k], Table[r2].val)) =>
              \E n1, n2 \in 1..Len(interfaces) :
                /\ n1 < n2
                /\ interfaces[n1][2] = FinalComponent(Table[r1].name)
                /\ interfaces[n2][2] = FinalComponent(Table[r2].name)
                /\ \E j \in 1..k : IsFirstMatch(j, r1) /\ interfaces[n1][1] = Patterns[j]
                /\ \E j \in 1..k : IsFirstMatch(j, r2) /\ interfaces[n2][1] = Patterns[j]
       /\ Len(interfaces) = Cardinality({ r \in 1..Len(Table) : RowMatched(r) })
  /\ StoredAsBuilt
  /\ \A h \in Hosts : Started(h) =>
       /\ pc[h] = "sleep" => gets[h] = Len(cfg[h]) * Len(Metrics)
       /\ gets[h] > 0 => request[h][2] = cfg[h][IterIf(h)][2]

C7_Witness ==
  \E h \in Hosts :
    /\ pc[h] = "sleep"
    /\ Len(cfg[h]) = 2
    /\ cfg[h][1][1] = cfg[h][2][1]
    /\ cfg[h][1][2] # cfg[h][2][2]
    /\ gets[h] = 4
    /\ request[h][2] = cfg[h][2][2]

(* ================================ C8 =================================== *)
\* C8: a transport error in the walk of a host leaves that host with an empty
\* list and never stops the program; whatever happened to the other hosts,
\* the list built for a host after a walk without error has exactly one entry
\* per row of that walk that one of the host's own patterns matches.
C8_TransportErrorEmptiesOnlyThatHost ==
  /\ (mainPc = "assign" /\ walk.err_indication) => interfaces = <<>>
  /\ \A h \in Hosts : (resolution[h] = "transport" /\ Resolved(h)) => cfg[h] = <<>>
  /\ \A h \in Hosts : resolution[h] = "transport" => h # CurHost \/ mainPc # "aborted"
  /\ (mainPc = "assign" /\ WalkOk) =>
       /\ \A r \in 1..Len(Table) :
            RowMatched(r) <=>
              \E e \in Range(interfaces) : e[2] = FinalComponent(Table[r].name)
       /\ Len(interfaces) = Cardinality({ r \in 1..Len(Table) : RowMatched(r) })
  /\ StoredAsBuilt

C8_Witness ==
  /\ mainPc = "assign"
  /\ hostIdx = 2
  /\ resolution[HostOrder[1]] = "transport"
  /\ cfg[HostOrder[1]] = <<>>
  /\ WalkOk
  /\ Len(interfaces) = 2

C10_TransportErrorSkipsThePair ==
  \A h \in Hosts : ReplyTransport(h) =>
    /\ json_data[h] = <<>>
    /\ status[h] # "success"
    /\ pc[h] \in {"poll", "sleep"}
    /\ pc[h] = "poll" => (gets[h] = Before(h) /\ gets[h] < Len(cfg[h]) * Len(Metrics))
    /\ pc[h] = "sleep" => gets[h] = Len(cfg[h]) * Len(Metrics)

C10_Witness ==
  \E h \in Hosts :
    /\ ReplyTransport(h)
    /\ pc[h] = "poll"
    /\ gets[h] = 1
    /\ whatIdx[h] = 2
    /\ json_data[h] = <<>>

(* ================================ C11 ================================== *)
\* C11: a failed sink write is caught: after it the poller is still running
\* (at the next pair of the round, or at the sleep before the next round).
C11_SinkFailureKeepsPolling ==
  \A h \in Hosts :
    (ReplySuccess(h) /\ json_data[h] # <<>>) => pc[h] \in {"poll", "sleep"}

(* ================================ C12 ================================== *)
\* C12: once the supervisor has left its resolution and start-up loops, every
\* configured host has a started poller; a host whose resolution failed has
\* an empty list and its poller has issued no GET.
C12_EveryHostGetsItsPoller ==
  /\ mainPc \notin {"walk", "match", "assign", "spawn"} =>
       \A h \in Hosts : Started(h)
  /\ \A h \in Hosts :
       (Started(h) /\ resolution[h] # "ok") => (cfg[h] = <<>> /\ gets[h] = 0)

(* ================================ C13 ================================== *)
\* C13: under fair scheduling a started poller, whatever its GETs return,
\* always comes to the end of its round again (and so begins the next one),
\* unless a sink write has failed; and the supervisor, once in its heartbeat
\* loop, logs its heartbeat again and again.
C13_PollersAndHeartbeatRunForever ==
  /\ \A h \in Hosts : Started(h) ~> (pc[h] = "sleep" \/ exc[h] = "SinkError")
  /\ (mainPc = "sleep") ~> (mainPc = "alive")
  /\ (mainPc = "alive") ~> (mainPc = "sleep")

(* ================================ C14 ================================== *)
\* C14: a step issues at most one GET of a host, only from the poller's GET
\* position, and the n-th GET of a round is the GET of the n-th pair in the
\* fixed order: entries in list order, for each entry ifHCInOctets and then
\* ifHCOutOctets; nothing ties a GET of one host to the GETs of another.
C14_GetsSequentialInListOrder ==
  [][\A h \in Hosts :
       /\ gets'[h] \in {gets[h], gets[h] + 1, 0}
       /\ gets'[h] = gets[h] + 1 =>
            /\ pc[h] = "poll"
            /\ gets[h] < Len(cfg[h]) * Len(Metrics)
            /\ request'[h] = <<Metrics[(gets[h] % Len(Metrics)) + 1],
                               cfg[h][(gets[h] \div Len(Metrics)) + 1][2]>>
            /\ \A g \in Hosts \ {h} : gets'[g] = gets[g] /\ request'[g] = request[g]
       /\ request'[h] # request[h] => gets'[h] = gets[h] + 1
    ]_vars

\* the poller started second has finished a round of four GETs, in order,
\* while the poller started first has issued one GET of its own four
C14_Witness ==
  /\ Len(cfg[HostOrder[1]]) = 2
  /\ Len(cfg[HostOrder[2]]) = 2
  /\ pc[HostOrder[1]] = "poll"
  /\ gets[HostOrder[1]] = 1
  /\ pc[HostOrder[2]] = "sleep"
  /\ gets[HostOrder[2]] = 4
  /\ request[HostOrder[2]] = <<Metrics[2], cfg[HostOrder[2]][2][2]>>

(* ================================ C15 ================================== *)
\* C15: under fair scheduling, after a GET that failed (transport or protocol
\* error) the poller comes to the start of its next round, where the GETs of
\* all pairs are issued again, unless a sink write has failed in between.
C15_FailedGetRetriedNextRound ==
  \A h \in Hosts :
    (ReplyTransport(h) \/ ReplyProtocol(h)) ~>
      ((pc[h] = "poll" /\ gets[h] = 0) \/ exc[h] = "SinkError")

(* ================================ C16 ================================== *)
\* C16: a poller comes to its sleep only when every GET of the round has been
\* issued and the write of the last successful GET has been made; a new round
\* (the count of GETs back at zero) begins only by the step out of that sleep,
\* and no GET is issued while the poller sleeps or writes.
C16_SleepBetweenCompleteRounds ==
  [][\A h \in Hosts :
       /\ (pc[h] # "sleep" /\ pc'[h] = "sleep") =>
            /\ gets'[h] = Len(cfg'[h]) * Len(Metrics)
            /\ pc[h] = "write" => json_data'[h] # <<>>
            /\ pc[h] \in {"unstarted", "poll", "write"}
       /\ (Started(h) /\ gets'[h] < gets[h]) =>
            /\ pc[h] = "sleep"
            /\ gets[h] = Len(cfg[h]) * Len(Metrics)
            /\ gets'[h] = 0
       /\ pc[h] = "sleep" =>
            \/ UNCHANGED <<pc[h], gets[h], request[h], reply[h], json_data[h]>>
            \/ /\ gets'[h] = 0
               /\ pc'[h] = (IF cfg[h] = <<>> THEN "sleep" ELSE "poll")
               /\ UNCHANGED <<request[h], reply[h], json_data[h]>>
       /\ gets'[h] # gets[h] /\ gets'[h] # 0 => pc[h] = "poll"
    ]_vars

\* a round of four GETs has ended with the write of its last point, the sleep
\* has passed and the next round stands before its first GET
C16_Witness ==
  \E h \in Hosts :
    /\ Len(cfg[h]) = 2
    /\ pc[h] = "poll"
    /\ gets[h] = 0
    /\ request[h] = <<Metrics[2], cfg[h][2][2]>>
    /\ json_data[h] # <<>>

(* ================================ C17 ================================== *)
\* C17: a host configured with no pattern resolves to the empty list whatever
\* the walk returned, the list stored for it is that list, and the poller of
\* a host whose list is empty issues no GET and makes no write, going from
\* sleep to sleep.
C17_NoPatternsNoEntriesNoGets ==
  /\ (mainPc = "assign" /\ Patterns = <<>>) => interfaces = <<>>
  /\ StoredAsBuilt
  /\ \A h \in Hosts :
       (Started(h) /\ cfg[h] = <<>>) =>
          /\ pc[h] = "sleep"
          /\ gets[h] = 0
          /\ request[h] = <<>>
          /\ json_data[h] = <<>>
          /\ exc[h] = "none"

\* the second host has no pattern, its walk returned two rows without error
\* and its list is empty, the first host having resolved two entries
C17_Witness ==
  /\ mainPc = "assign"
  /\ hostIdx = 2
  /\ Patterns = <<>>
  /\ WalkOk
  /\ Len(Table) = 2
  /\ interfaces = <<>>
  /\ Len(cfg[HostOrder[1]]) = 2

(* ================================ C18 ================================== *)
\* C18: the list of a host changes only by the one step that stores it at the
\* end of that host's resolution, before any poller runs; the list of every
\* other host is left alone by that step; no step of any poller and no step of
\* the supervisor after resolution changes any list, no host is walked twice,
\* and every GET carries the index of the entry the loop stands at.
C18_ListWrittenOnceThenReadOnly ==
  [][/\ \A h \in Hosts :
          cfg'[h] # cfg[h] =>
            /\ mainPc = "assign"
            /\ h = HostOrder[hostIdx]
            /\ cfg'[h] = interfaces
            /\ \A g \in Hosts : ~Started(g)
     /\ mainPc \in {"spawn", "alive", "sleep", "aborted"} => cfg' = cfg
     /\ (\E h \in Hosts : pc'[h] # pc[h] \/ gets'[h] # gets[h]) => cfg' = cfg
     /\ mainPc' = "walk" => resolution'[HostOrder[hostIdx']] = "pending"
     /\ \A h \in Hosts :
          (resolution[h] # "pending" => resolution'[h] = resolution[h])
     /\ \A h \in Hosts :
          gets'[h] = gets[h] + 1 => request'[h][2] = cfg'[h][ifIdx[h]][2]
    ]_vars

\* both pollers have gone through a round on the lists stored at resolution,
\* its last GET at the index of the last entry, and stand at their next round
C18_Witness ==
  /\ mainPc = "sleep"
  /\ \A h \in Hosts :
       /\ resolution[h] = "ok"
       /\ Len(cfg[h]) >= 1
       /\ pc[h] = "poll"
       /\ gets[h] = 0
       /\ request[h] = <<Metrics[Len(Metrics)], cfg[h][Len(cfg[h])][2]>>

(* ================================ C19 ================================== *)
\* the resolution of h has ended, with a list or with a reported error
Finished(h) == resolution[h] \in {"ok", "transport", "protocol"}

\* C19: while the supervisor resolves, the hosts before the current one are
\* finished, the later ones untouched, and no poller is started; a poller is
\* started, and a GET issued, only when the resolution of every host has
\* finished; pollers are started in the order of the hosts.
C19_ResolutionPrecedesPolling ==
  /\ mainPc \in {"walk", "match", "assign", "aborted"} =>
       /\ \A h \in Hosts : ~Started(h) /\ gets[h] = 0 /\ request[h] = <<>>
       /\ \A k \in 1..Len(HostOrder) :
            /\ k < hostIdx => Finished(HostOrder[k])
            /\ k > hostIdx => resolution[HostOrder[k]] = "pending"
       /\ mainPc = "walk" => resolution[HostOrder[hostIdx]] = "pending"
       /\ mainPc = "assign" => Finished(HostOrder[hostIdx])
  /\ (\E h \in Hosts : Started(h) \/ gets[h] > 0 \/ request[h] # <<>>) =>
       /\ mainPc \in {"spawn", "alive", "sleep"}
       /\ \A g \in Hosts : Finished(g)
  /\ mainPc = "spawn" =>
       \A k \in 1..Len(HostOrder) : Started(HostOrder[k]) <=> k < hostIdx

\* the first host's poller has issued a GET before the second host's poller
\* is started, both hosts resolved, the second with a reported error
C19_Witness ==
  /\ mainPc = "spawn"
  /\ hostIdx = 2
  /\ gets[HostOrder[1]] = 1
  /\ ~Started(HostOrder[2])
  /\ resolution[HostOrder[2]] = "protocol"
  /\ resolution[HostOrder[1]] = "ok"

(* ================================ C20 ================================== *)
\* the walked rows that some configured pattern matches
MatchedRows == { r \in 1..Len(Table) : RowMatched(r) }

\* the n-th of them in table order
NthMatched(n) ==
  CHOOSE r \in MatchedRows : Cardinality({ q \in MatchedRows : q < r }) = n - 1

\* C20: the list built for a host has no more entries than the walk returned
\* rows; after a walk without error its n-th entry comes from the n-th matched
\* row of the table, whatever the order of the patterns; that list is what is
\* stored, and the GETs of a round follow the stored order.
C20_EntriesInRowOrder ==
  /\ mainPc = "assign" =>
       /\ Len(interfaces) <= Len(Table)
       /\ WalkOk =>
            /\ Len(interfaces) = Cardinality(MatchedRows)
            /\ \A n \in 1..Len(interfaces) :
                 /\ interfaces[n][2] = FinalComponent(Table[NthMatched(n)].name)
                 /\ \E k \in 1..Len(Patterns) :
                      IsFirstMatch(k, NthMatched(n)) /\ interfaces[n][1] = Patterns[k]
  /\ StoredAsBuilt
  /\ \A h \in Hosts :
       (Started(h) /\ gets[h] > 0 /\ IterIf(h) <= Len(cfg[h])) =>
          request[h] = <<Metrics[IterWhat(h)], cfg[h][IterIf(h)][2]>>

\* the first row is matched by the second pattern only, the second row by the
\* first pattern: the entries stand in row order, against the pattern order
C20_Witness ==
  /\ mainPc = "assign"
  /\ WalkOk
  /\ Len(Patterns) = 2
  /\ Len(Table) = 2
  /\ Len(interfaces) = 2
  /\ interfaces[1] = <<Patterns[2], FinalComponent(Table[1].name)>>
  /\ interfaces[2] = <<Patterns[1], FinalComponent(Table[2].name)>>
  /\ Patterns[1] # Patterns[2]


====
